---- MODULE Spec2Model ----
(***************************************************************************)
(* Model of source/lambda/executor/utils/llm_utils/llm_chains/             *)
(* mkt_conversation_summary.py: the internlm2 conversation-summary chain.  *)
(*                                                                         *)
(* Text is modelled by TLA+ strings and Python's + / f-string by \o.  The  *)
(* module is kept in ASCII: every Chinese literal of the source is         *)
(* replaced by a distinct ASCII stand-in, named Lit... below.              *)
(***************************************************************************)
EXTENDS Naturals, Sequences, FiniteSets, TLC

VARIABLES chain, pc, request, x, frame, error, calls, src, result, genpc, consumed, seen

vars == <<chain, pc, request, x, frame, error, calls, src, result, genpc, consumed, seen>>

-----------------------------------------------------------------------------
(* Bounds of the model. *)

\* Longest chat_history of a request of the single-invocation specification.
MaxHistLen == 4
\* Longest chunk sequence a model stream carries.
MaxChunks == 2
\* Number of invocations that may be in flight at once (SpecConc).
MaxInvocations == 2

Invocations == 1 .. MaxInvocations

-----------------------------------------------------------------------------
(* Message types, imported at line 2. *)

HUMAN_MESSAGE_TYPE == "human"
AI_MESSAGE_TYPE == "ai"
SYSTEM_MESSAGE_TYPE == "system"

MessageTypes == {HUMAN_MESSAGE_TYPE, AI_MESSAGE_TYPE, SYSTEM_MESSAGE_TYPE}
Contents == {"A?", "B."}
Messages == [type : MessageTypes, content : Contents]

Human(c) == [type |-> HUMAN_MESSAGE_TYPE, content |-> c]
Ai(c) == [type |-> AI_MESSAGE_TYPE, content |-> c]

SeqsUpTo(S, n) == UNION {[1 .. k -> S] : k \in 0 .. n}

Histories == SeqsUpTo(Messages, MaxHistLen)

-----------------------------------------------------------------------------
(* Python exceptions that the modelled code can raise. *)

NoError == "none"
AssertionError == "AssertionError"
IndexError == "IndexError"
TypeError == "TypeError"
ModelError == "ModelError"

-----------------------------------------------------------------------------
(* String literals of _create_prompt (ASCII stand-ins, see the header). *)

\* line 39 and 48: U+95EE U+9898 ("question")
LitQuestion == "Question"
\* line 48: U+603B U+7ED3 ("summary")
LitSummary == "Summary"
\* line 41: the fixed query instruction, ending in a newline
LitQueryInput == "Please summarize the conversation above, one summary per turn.\n"
\* line 47: the text before {len(history)}
LitAssistHead == "OK, from the conversation history provided, there are "
\* line 47: the text between {len(history)} and {questions_str}
LitAssistCount == " conversations:\n"
\* line 47: the text after {questions_str}
LitAssistTail == "\nTheir summaries follow (each summary first restates the question):\n"
\* line 43: the system template imported at line 4
CHIT_CHAT_SYSTEM_TEMPLATE == "You are a helpful AI Assistant."

-----------------------------------------------------------------------------
(* Python's decimal formatting of a non-negative int inside an f-string. *)

Digit == <<"0", "1", "2", "3", "4", "5", "6", "7", "8", "9">>

RECURSIVE Str(_)
Str(n) == IF n < 10 THEN Digit[n + 1] ELSE Str(n \div 10) \o Digit[(n % 10) + 1]

-----------------------------------------------------------------------------
(* Dicts: functions from keys to values. *)

HasKey(d, k) == k \in DOMAIN d

\* RunnablePassthrough.assign: a new dict, the input's keys overridden by kv's.
Assign(d, kv) ==
  [k \in DOMAIN d \cup DOMAIN kv |-> IF k \in DOMAIN kv THEN kv[k] ELSE d[k]]

\* kwargs.get(key, default)
KwargsGet(kwargs, key, default) == IF HasKey(kwargs, key) THEN kwargs[key] ELSE default

NoDict == [k \in {} |-> ""]

-----------------------------------------------------------------------------
(* Iternlm2Chat7BChatChain.build_prompt, inherited from chat_chain: the     *)
(* internlm2 chat template over the system instruction, the paired history *)
(* and the query.                                                          *)

RECURSIVE BuildHistory(_)
BuildHistory(history) ==
  IF history = <<>> THEN ""
  ELSE "<|im_start|>user\n" \o Head(history)[1] \o "<|im_end|>\n"
         \o "<|im_start|>assistant\n" \o Head(history)[2] \o "<|im_end|>\n"
         \o BuildHistory(Tail(history))

build_prompt(meta_instruction, history, query) ==
  "<|im_start|>system\n" \o meta_instruction \o "<|im_end|>\n"
    \o BuildHistory(history)
    \o "<|im_start|>user\n" \o query \o "<|im_end|>\n<|im_start|>assistant\n"

-----------------------------------------------------------------------------
(* _create_prompt, lines 25-53. *)

\* Line 27: assert len(chat_history) % 2 == 0
LengthAssertHolds(chat_history) == Len(chat_history) % 2 = 0

\* RoleAssertsHold with the assert of line 33 left out.
RoleAssertsHoldHumanOnly(chat_history, i) ==
  chat_history[i + 1].type = HUMAN_MESSAGE_TYPE

\* Lines 32-33: the two role asserts of one loop iteration; i is the Python
\* (0-based) index, chat_history[i] is chat_history[i + 1] here.
RoleAssertsHold(chat_history, i) ==
  /\ chat_history[i + 1].type = HUMAN_MESSAGE_TYPE
  /\ chat_history[i + 2].type = AI_MESSAGE_TYPE

\* Lines 29-35: the loop over range(0, len(chat_history), 2), from index i on,
\* with the lists built so far.
RECURSIVE ReshapeFrom(_, _, _, _)
ReshapeFrom(chat_history, i, history, questions) ==
  IF i >= Len(chat_history)
    THEN [error |-> NoError, history |-> history, questions |-> questions]
  ELSE IF ~RoleAssertsHold(chat_history, i)
    THEN [error |-> AssertionError, history |-> history, questions |-> questions]
  ELSE ReshapeFrom(chat_history, i + 2,
                   Append(history, <<chat_history[i + 1].content,
                                     chat_history[i + 2].content>>),
                   Append(questions, chat_history[i + 1].content))

\* Lines 37-39: questions_str, from enumerate index i (0-based) on.
RECURSIVE QuestionsStrFrom(_, _)
QuestionsStrFrom(questions, i) ==
  IF i >= Len(questions) THEN ""
  ELSE LitQuestion \o Str(i + 1) \o ": " \o questions[i + 1] \o "\n"
         \o QuestionsStrFrom(questions, i + 1)

\* Line 47
PromptAssist(history, questions_str) ==
  LitAssistHead \o Str(Len(history)) \o LitAssistCount \o questions_str \o LitAssistTail

\* Prefix taking questions[-1] for questions[0].
PrefixOfLastQuestion(questions) ==
  LitQuestion \o "1: " \o questions[Len(questions)] \o "\n" \o LitSummary \o ":"

\* Line 48; the caller has checked that questions[0] exists.
Prefix(questions) == LitQuestion \o "1: " \o questions[1] \o "\n" \o LitSummary \o ":"

\* FinalPrompt without the prefix at its end.
FinalPromptNoPrefix(prompt, prompt_assist, prefix) == prompt \o prompt_assist

\* Line 51
FinalPrompt(prompt, prompt_assist, prefix) == prompt \o prompt_assist \o prefix

\* The whole call: the exception it raises (NoError when it returns), its
\* locals history and questions when it ends, and the dict it returns.
CreatePrompt(xi) ==
  LET chat_history == xi["chat_history"]
      none == [error |-> NoError, history |-> <<>>, questions |-> <<>>, ret |-> NoDict]
  IN IF ~LengthAssertHolds(chat_history)
       THEN [none EXCEPT !.error = AssertionError]
     ELSE LET r == ReshapeFrom(chat_history, 0, <<>>, <<>>)
          IN IF r.error # NoError
               THEN [none EXCEPT !.error = r.error, !.history = r.history,
                                 !.questions = r.questions]
             ELSE IF r.questions = <<>>
               THEN \* line 48: questions[0] of an empty list
                    [none EXCEPT !.error = IndexError]
             ELSE LET prompt == build_prompt(CHIT_CHAT_SYSTEM_TEMPLATE, r.history,
                                             LitQueryInput)
                      prompt_assist == PromptAssist(r.history,
                                                    QuestionsStrFrom(r.questions, 0))
                      prefix == Prefix(r.questions)
                  IN [error |-> NoError, history |-> r.history,
                      questions |-> r.questions,
                      ret |-> [prompt |-> FinalPrompt(prompt, prompt_assist, prefix),
                               prefix |-> prefix]]

\* create_prompt reading the wrong key of the dict.
create_prompt_wrong_key(xi) == xi["prefix"]

\* Lines 20-22: the prompt the inherited chain sends to the model.
create_prompt(xi) == xi["prompt"]

-----------------------------------------------------------------------------
(* stream_postprocess_fn, lines 55-58: a generator.  GenBody is its body,  *)
(* one entry per statement; genpc is the statement the generator is        *)
(* suspended before (Len(GenBody) + 1: it has returned or raised).         *)

\* GenBody yielding the prefix after the model's chunks.
GenBodyPrefixLast == <<"yield_from_llm_output", "yield_prefix">>

\* GenBody yielding a completion marker when the model stream is over.
GenBodyWithMarker == <<"yield_prefix", "yield_from_llm_output", "[DONE]">>

GenBody == <<"yield_prefix", "yield_from_llm_output">>

GenFinished(body) == Len(body) + 1

\* One next() on the generator: runs from statement g to the next yield, to
\* the return or to an exception.  s is the model stream behind
\* x['llm_output'] and fate what that stream does if it is asked for a chunk
\* now: "deliver" the next chunk (or end, when there is none left), "stop"
\* early or "raise".
RECURSIVE GenNext(_, _, _, _, _)
GenNext(body, g, xi, s, fate) ==
  IF g > Len(body)
    THEN [genpc |-> g, src |-> s, signal |-> "StopIteration", out |-> <<>>]
  ELSE IF body[g] = "yield_prefix"
    THEN [genpc |-> g + 1, src |-> s, signal |-> "chunk", out |-> <<xi["prefix"]>>]
  ELSE IF body[g] = "yield_from_llm_output"
    THEN IF s.state = "open" /\ fate = "raise"
           THEN [genpc |-> GenFinished(body), src |-> [s EXCEPT !.state = "raised"],
                 signal |-> ModelError, out |-> <<>>]
         ELSE IF s.state = "open" /\ fate = "deliver" /\ s.pos < Len(s.chunks)
           THEN [genpc |-> g, src |-> [s EXCEPT !.pos = s.pos + 1],
                 signal |-> "chunk", out |-> <<s.chunks[s.pos + 1]>>]
         ELSE GenNext(body, g + 1, xi,
                      [s EXCEPT !.state = IF s.state # "open" THEN s.state
                                          ELSE IF s.pos < Len(s.chunks) THEN "cut"
                                          ELSE "ended"],
                      fate)
  ELSE \* a plain "yield <text>" statement
       [genpc |-> g + 1, src |-> s, signal |-> "chunk", out |-> <<body[g]>>]

\* NonStreamPostprocess returning the model's text alone.
NonStreamPostprocessNoPrefix(xi) == xi["llm_output"].text

\* Line 72: the non-streaming formatter.
NonStreamPostprocess(xi) == xi["prefix"] \o xi["llm_output"].text

-----------------------------------------------------------------------------
(* create_chain, lines 60-73. *)

Chunks == {"foo", "bar"}
Streams == SeqsUpTo(Chunks, MaxChunks)
ModelOutputs == {"foo", "foobar"}
Kwargs == {NoDict, [stream |-> TRUE], [stream |-> FALSE]}

\* The requests of the single-invocation specification: a chat_history and,
\* possibly, a 'stream' key of the caller's own.
Requests ==
  {[chat_history |-> h] : h \in Histories}
    \cup {[chat_history |-> h, stream |-> b] : h \in Histories, b \in BOOLEAN}

\* Line 63
StreamFlag(kwargs) == KwargsGet(kwargs, "stream", FALSE)

\* Line 64: whether the inherited chain, given the same kwargs, streams.
LlmChainStreams(kwargs) == KwargsGet(kwargs, "stream", FALSE)

\* FormatterStreams letting a 'stream' key of the request decide.
FormatterStreamsPerCall(chainv, xi) == KwargsGet(xi, "stream", chainv.stream)

\* Line 69: the branch was taken at assembly; a call's dict plays no part.
FormatterStreams(chainv, xi) == chainv.stream

\* FormatterInput handing every invocation the dict of the first invocation
\* that has a model output, as a dict kept on the class would.
FormatterInputShared(xs, i) ==
  xs[CHOOSE j \in Invocations :
       /\ HasKey(xs[j], "llm_output")
       /\ \A k \in Invocations : HasKey(xs[k], "llm_output") => j <= k]

\* Lines 69-72: the dict the formatter of invocation i receives.
FormatterInput(xs, i) == xs[i]

NoFrame == [history |-> <<>>, questions |-> <<>>]
NoSrc == [chunks |-> <<>>, pos |-> 0, state |-> "none"]
NoResult == [kind |-> "none", value |-> ""]

Init ==
  /\ chain = [assembled |-> FALSE, kwargs |-> NoDict, stream |-> FALSE, llm_stream |-> FALSE]
  /\ pc = [i \in Invocations |-> "idle"]
  /\ request = [i \in Invocations |-> NoDict]
  /\ x = [i \in Invocations |-> NoDict]
  /\ frame = [i \in Invocations |-> NoFrame]
  /\ error = [i \in Invocations |-> NoError]
  /\ calls = [i \in Invocations |-> <<>>]
  /\ src = [i \in Invocations |-> NoSrc]
  /\ result = [i \in Invocations |-> NoResult]
  /\ genpc = [i \in Invocations |-> 0]
  /\ consumed = [i \in Invocations |-> <<>>]
  /\ seen = [i \in Invocations |-> "none"]

\* create_chain(**kwargs)
CreateChain(kwargs) ==
  /\ ~chain.assembled
  /\ chain' = [assembled |-> TRUE, kwargs |-> kwargs, stream |-> StreamFlag(kwargs),
               llm_stream |-> LlmChainStreams(kwargs)]
  /\ UNCHANGED <<pc, request, x, frame, error, calls, src, result, genpc, consumed, seen>>

\* chain.invoke(req), for a request of the set reqs
Invoke(i, reqs) ==
  /\ chain.assembled
  /\ pc[i] = "idle"
  /\ \E req \in reqs :
       /\ request' = [request EXCEPT ![i] = req]
       /\ x' = [x EXCEPT ![i] = req]
  /\ pc' = [pc EXCEPT ![i] = "prompt_dict"]
  /\ UNCHANGED <<chain, frame, error, calls, src, result, genpc, consumed, seen>>

\* Lines 65-66: assign(prompt_dict=_create_prompt(x)); an exception ends the
\* invocation.
StepPromptDict(i) ==
  /\ pc[i] = "prompt_dict"
  /\ LET r == CreatePrompt(x[i])
     IN /\ frame' = [frame EXCEPT ![i] = [history |-> r.history, questions |-> r.questions]]
        /\ IF r.error # NoError
             THEN /\ error' = [error EXCEPT ![i] = r.error]
                  /\ pc' = [pc EXCEPT ![i] = "raised"]
                  /\ x' = x
             ELSE /\ x' = [x EXCEPT ![i] = Assign(x[i], [prompt_dict |-> r.ret])]
                  /\ pc' = [pc EXCEPT ![i] = "prompt_prefix"]
                  /\ error' = error
  /\ UNCHANGED <<chain, request, calls, src, result, genpc, consumed, seen>>

\* Line 67: assign(prompt=..., prefix=...)
StepPromptPrefix(i) ==
  /\ pc[i] = "prompt_prefix"
  /\ x' = [x EXCEPT ![i] = Assign(x[i], [prompt |-> x[i]["prompt_dict"]["prompt"],
                                         prefix |-> x[i]["prompt_dict"]["prefix"]])]
  /\ pc' = [pc EXCEPT ![i] = "llm_output"]
  /\ UNCHANGED <<chain, request, frame, error, calls, src, result, genpc, consumed, seen>>

\* Line 68: assign(llm_output=llm_chain); the model answers with a text.
StepLlmText(i, t) ==
  /\ pc[i] = "llm_output"
  /\ ~chain.llm_stream
  /\ calls' = [calls EXCEPT ![i] = Append(calls[i], create_prompt(x[i]))]
  /\ x' = [x EXCEPT ![i] = Assign(x[i], [llm_output |-> [kind |-> "text", text |-> t]])]
  /\ pc' = [pc EXCEPT ![i] = "format"]
  /\ UNCHANGED <<chain, request, frame, error, src, result, genpc, consumed, seen>>

\* Line 68: the model answers with a stream that carries the chunks s.
StepLlmStream(i, s) ==
  /\ pc[i] = "llm_output"
  /\ chain.llm_stream
  /\ calls' = [calls EXCEPT ![i] = Append(calls[i], create_prompt(x[i]))]
  /\ src' = [src EXCEPT ![i] = [chunks |-> s, pos |-> 0, state |-> "open"]]
  /\ x' = [x EXCEPT ![i] = Assign(x[i], [llm_output |-> [kind |-> "stream", id |-> i]])]
  /\ pc' = [pc EXCEPT ![i] = "format"]
  /\ UNCHANGED <<chain, request, frame, error, result, genpc, consumed, seen>>

\* Line 68: the model call fails; the exception ends the invocation.
StepLlmFails(i) ==
  /\ pc[i] = "llm_output"
  /\ calls' = [calls EXCEPT ![i] = Append(calls[i], create_prompt(x[i]))]
  /\ error' = [error EXCEPT ![i] = ModelError]
  /\ pc' = [pc EXCEPT ![i] = "raised"]
  /\ UNCHANGED <<chain, request, x, frame, src, result, genpc, consumed, seen>>

\* Lines 69-72: the formatter, and the return to the caller.
StepFormat(i) ==
  /\ pc[i] = "format"
  /\ LET xi == FormatterInput(x, i)
     IN IF FormatterStreams(chain, xi)
          THEN \* line 70: the call only creates the generator
               /\ result' = [result EXCEPT ![i] = [kind |-> "generator", value |-> ""]]
               /\ genpc' = [genpc EXCEPT ![i] = 1]
               /\ pc' = [pc EXCEPT ![i] = "returned"]
               /\ error' = error
          ELSE IF xi["llm_output"].kind = "text"
            THEN /\ result' = [result EXCEPT ![i] = [kind |-> "str",
                                                     value |-> NonStreamPostprocess(xi)]]
                 /\ pc' = [pc EXCEPT ![i] = "returned"]
                 /\ UNCHANGED <<genpc, error>>
          ELSE \* str + a stream object
               /\ error' = [error EXCEPT ![i] = TypeError]
               /\ pc' = [pc EXCEPT ![i] = "raised"]
               /\ UNCHANGED <<genpc, result>>
  /\ UNCHANGED <<chain, request, x, frame, calls, src, consumed, seen>>

\* next() on the returned generator.
Pull(i, fate) ==
  /\ pc[i] = "returned"
  /\ result[i].kind = "generator"
  /\ LET xi == FormatterInput(x, i)
         id == xi["llm_output"].id
         r == GenNext(GenBody, genpc[i], xi, src[id], fate)
     IN /\ xi["llm_output"].kind = "stream"
        /\ genpc' = [genpc EXCEPT ![i] = r.genpc]
        /\ src' = [src EXCEPT ![id] = r.src]
        /\ consumed' = [consumed EXCEPT ![i] = consumed[i] \o r.out]
        /\ seen' = [seen EXCEPT ![i] = r.signal]
  /\ UNCHANGED <<chain, pc, request, x, frame, error, calls, result>>

\* The model stream is asked for a chunk.
AtModelStream(i) ==
  /\ genpc[i] \in 1 .. Len(GenBody)
  /\ GenBody[genpc[i]] = "yield_from_llm_output"
  /\ src[i].state = "open"

\* The caller pulls and the model stream, if asked, goes on.
PullNext(i) ==
  /\ genpc[i] \in 1 .. Len(GenBody)
  /\ Pull(i, "deliver")

\* The caller pulls and the model stream is interrupted before its last chunk.
PullInterrupted(i, fate) ==
  /\ AtModelStream(i)
  /\ src[i].pos < Len(src[i].chunks)
  /\ Pull(i, fate)

\* The caller pulls a generator that is over.
PullExhausted(i) ==
  /\ genpc[i] = GenFinished(GenBody)
  /\ Pull(i, "deliver")

-----------------------------------------------------------------------------
(* Spec: one invocation of one assembled chain, over every request.        *)

Next ==
  \/ \E kwargs \in Kwargs : CreateChain(kwargs)
  \/ Invoke(1, Requests)
  \/ StepPromptDict(1)
  \/ StepPromptPrefix(1)
  \/ \E t \in ModelOutputs : StepLlmText(1, t)
  \/ \E s \in Streams : StepLlmStream(1, s)
  \/ StepLlmFails(1)
  \/ StepFormat(1)
  \/ PullNext(1)
  \/ \E fate \in {"stop", "raise"} : PullInterrupted(1, fate)
  \/ PullExhausted(1)

Spec == Init /\ [][Next]_vars

(* SpecConc: the invocations of one assembled chain interleave.            *)

ConcHistories ==
  { <<Human("A?"), Ai("B.")>>,
    <<Human("B."), Ai("A?"), Human("A?"), Ai("B.")>>,
    <<Human("A?")>> }
ConcRequests == {[chat_history |-> h] : h \in ConcHistories}
ConcStreams == { <<"foo", "bar">>, <<"bar">> }

NextConc ==
  \/ \E kwargs \in Kwargs : CreateChain(kwargs)
  \/ \E i \in Invocations :
       \/ Invoke(i, ConcRequests)
       \/ StepPromptDict(i)
       \/ StepPromptPrefix(i)
       \/ \E t \in ModelOutputs : StepLlmText(i, t)
       \/ \E s \in ConcStreams : StepLlmStream(i, s)
       \/ StepLlmFails(i)
       \/ StepFormat(i)
       \/ PullNext(i)
       \/ \E fate \in {"stop", "raise"} : PullInterrupted(i, fate)
       \/ PullExhausted(i)

SpecConc == Init /\ [][NextConc]_vars

TypeOK ==
  /\ \A i \in Invocations :
       /\ pc[i] \in {"idle", "prompt_dict", "prompt_prefix", "llm_output", "format",
                     "returned", "raised"}
       /\ genpc[i] \in 0 .. GenFinished(GenBody)
       /\ Len(calls[i]) <= 1

-----------------------------------------------------------------------------
(* Vocabulary of the properties, stated on the caller's request.           *)

ChatHistory(i) == request[i]["chat_history"]

\* _create_prompt has run for invocation i.
PromptStepDone(i) == pc[i] \notin {"idle", "prompt_dict"}

\* Even length, human at every even (0-based) index, assistant at every odd one.
Alternates(h) ==
  /\ Len(h) % 2 = 0
  /\ \A k \in 1 .. Len(h) :
       h[k].type = (IF k % 2 = 1 THEN HUMAN_MESSAGE_TYPE ELSE AI_MESSAGE_TYPE)

Malformed(h) ==
  \/ Len(h) % 2 = 1
  \/ \E k \in 1 .. Len(h) : k % 2 = 1 /\ h[k].type # HUMAN_MESSAGE_TYPE
  \/ \E k \in 1 .. Len(h) : k % 2 = 0 /\ h[k].type # AI_MESSAGE_TYPE

Turns(h) == Len(h) \div 2
PairsOf(h) == [k \in 1 .. Turns(h) |-> <<h[2 * k - 1].content, h[2 * k].content>>]
QuestionsOf(h) == [k \in 1 .. Turns(h) |-> h[2 * k - 1].content]

\* "Question1: <first human message>\nSummary:"
PrefixOfFirstQuestion(h) == LitQuestion \o "1: " \o h[1].content \o "\n" \o LitSummary \o ":"

\* The questions k .. Turns(h) of h as a numbered list, one per line.
RECURSIVE NumberedQuestions(_, _)
NumberedQuestions(h, k) ==
  IF k > Turns(h) THEN ""
  ELSE LitQuestion \o Str(k) \o ": " \o h[2 * k - 1].content \o "\n"
         \o NumberedQuestions(h, k + 1)

PreambleOf(h) ==
  LitAssistHead \o Str(Turns(h)) \o LitAssistCount \o NumberedQuestions(h, 1)
    \o LitAssistTail

IsPrefixOf(s, t) == Len(s) <= Len(t) /\ s = SubSeq(t, 1, Len(s))

-----------------------------------------------------------------------------
(* C1.  For every even-length chat_history that alternates human,          *)
(* assistant, ... from a human message, _create_prompt succeeds, its       *)
(* paired history holds the Len/2 (question, answer) tuples in order and   *)
(* its question list the Len/2 questions in order.                         *)

C1_ReshapeSucceeds ==
  \A i \in Invocations :
    (PromptStepDone(i) /\ Alternates(ChatHistory(i))) =>
      /\ HasKey(x[i], "prompt_dict")
      /\ error[i] # AssertionError /\ error[i] # IndexError
      /\ frame[i].history = PairsOf(ChatHistory(i))
      /\ frame[i].questions = QuestionsOf(ChatHistory(i))

(* C2.  For every chat_history of odd length, or with a non-human message  *)
(* at an even index, or with a non-assistant message at an odd index,      *)
(* _create_prompt fails its assertion, no prompt and no prefix exist, and  *)
(* the failure is the outcome of the invocation.                           *)

C2_MalformedFails ==
  \A i \in Invocations :
    (PromptStepDone(i) /\ Malformed(ChatHistory(i))) =>
      /\ pc[i] = "raised"
      /\ error[i] = AssertionError
      /\ ~HasKey(x[i], "prompt_dict")
      /\ ~HasKey(x[i], "prompt")
      /\ ~HasKey(x[i], "prefix")
      /\ result[i] = NoResult

C2_Witness ==
  \E i \in Invocations :
    /\ pc[i] = "raised"
    /\ error[i] = AssertionError
    /\ Len(ChatHistory(i)) = 4
    /\ \A k \in 1 .. 3 : ChatHistory(i)[k].type = (IF k = 2 THEN AI_MESSAGE_TYPE
                                                   ELSE HUMAN_MESSAGE_TYPE)
    /\ ChatHistory(i)[4].type = SYSTEM_MESSAGE_TYPE

(* C3.  The model is called only with the prompt of a bundle that          *)
(* _create_prompt built for the same request; when prompt construction     *)
(* fails the model is called zero times and nothing is returned or         *)
(* yielded, in either output mode.                                         *)

C3_ModelOnlyAfterBundle ==
  \A i \in Invocations :
    /\ calls[i] # <<>> =>
         /\ HasKey(x[i], "prompt_dict")
         /\ CreatePrompt(request[i]).error = NoError
         /\ x[i]["prompt_dict"] = CreatePrompt(request[i]).ret
         /\ calls[i] = <<x[i]["prompt_dict"]["prompt"]>>
    /\ (PromptStepDone(i) /\ ~HasKey(x[i], "prompt_dict")) =>
         /\ pc[i] = "raised"
         /\ calls[i] = <<>>
         /\ result[i] = NoResult
         /\ genpc[i] = 0
         /\ consumed[i] = <<>>

C3_Witness ==
  \E i \in Invocations :
    /\ pc[i] = "raised"
    /\ chain.stream
    /\ Len(ChatHistory(i)) = 3
    /\ error[i] = AssertionError
    /\ calls[i] = <<>>

(* C4.  Whenever chat_history passes validation and has a first human      *)
(* message, the bundle's prefix is "Question1: " followed by the content   *)
(* of that message, a newline and "Summary:", whatever the other messages. *)

C4_PrefixIsFirstQuestion ==
  \A i \in Invocations :
    (PromptStepDone(i) /\ Alternates(ChatHistory(i)) /\ ChatHistory(i) # <<>>) =>
      /\ HasKey(x[i], "prompt_dict")
      /\ x[i]["prompt_dict"]["prefix"] = PrefixOfFirstQuestion(ChatHistory(i))
      /\ HasKey(x[i], "prefix") => x[i]["prefix"] = PrefixOfFirstQuestion(ChatHistory(i))

C4_Witness ==
  \E i \in Invocations :
    /\ HasKey(x[i], "prefix")
    /\ Len(ChatHistory(i)) = 4
    /\ ChatHistory(i)[1].content = "B."
    /\ ChatHistory(i)[3].content = "A?"
    /\ x[i]["prefix"] = "Question1: B.\nSummary:"

(* C5.  A chain assembled with stream false returns exactly the prefix of  *)
(* the request's bundle followed by the text the model returned for that   *)
(* request.                                                                *)

C5_NonStreamingOutput ==
  \A i \in Invocations :
    /\ (pc[i] = "returned" /\ ~StreamFlag(chain.kwargs)) => result[i].kind = "str"
    /\ result[i].kind = "str" =>
         /\ ~StreamFlag(chain.kwargs)
         /\ x[i]["llm_output"].kind = "text"
         /\ result[i].value = x[i]["prompt_dict"]["prefix"] \o x[i]["llm_output"].text

C5_Witness ==
  \E i \in Invocations :
    /\ result[i].kind = "str"
    /\ x[i]["llm_output"].text = "foobar"
    /\ result[i].value = "Question1: A?\nSummary:foobar"

(* C6.  A chain assembled with stream true yields the prefix first and     *)
(* once, then the chunks of the model stream in order: what the caller has *)
(* consumed is always an initial part of [prefix, c1, ..., cn], and all of *)
(* it once the stream has ended.                                           *)

C6_StreamingOutput ==
  \A i \in Invocations :
    result[i].kind = "generator" =>
      LET whole == <<x[i]["prompt_dict"]["prefix"]>> \o src[i].chunks
      IN /\ IsPrefixOf(consumed[i], whole)
         /\ src[i].state = "open" => Len(consumed[i]) = genpc[i] - 1 + src[i].pos
         /\ (genpc[i] = GenFinished(GenBody) /\ src[i].state = "ended") =>
              consumed[i] = whole

C6_Witness ==
  \E i \in Invocations :
    /\ seen[i] = "StopIteration"
    /\ src[i].state = "ended"
    /\ consumed[i] = <<"Question1: A?\nSummary:", "foo", "bar">>

\* The state of an invocation whose model stream was interrupted.
C7_InterruptedState ==
  \A i \in Invocations :
    (result[i].kind = "generator" /\ src[i].state \in {"cut", "raised"}) =>
      /\ genpc[i] = GenFinished(GenBody)
      /\ src[i].pos < Len(src[i].chunks)
      /\ consumed[i] = <<x[i]["prompt_dict"]["prefix"]>>
                         \o SubSeq(src[i].chunks, 1, src[i].pos)

\* A step from a state in which the sequence is over.
C7_OverStaysOver ==
  \A i \in Invocations :
    (result[i].kind = "generator" /\ genpc[i] = GenFinished(GenBody)) =>
      /\ genpc'[i] = genpc[i]
      /\ consumed'[i] = consumed[i]
      /\ seen'[i] # "chunk"

(* C7.  If the model stream is interrupted after k chunks the caller has   *)
(* received the prefix and those k chunks and nothing else when the        *)
(* sequence is over, and a sequence that is over never yields again.       *)

C7_InterruptedStreamEndsEarly == [] C7_InterruptedState /\ [][C7_OverStaysOver]_vars

C7_Witness ==
  \E i \in Invocations :
    /\ src[i].state = "cut"
    /\ src[i].chunks = <<"foo", "bar">>
    /\ seen[i] = "StopIteration"
    /\ consumed[i] = <<"Question1: A?\nSummary:", "foo">>

(* C8.  Under any interleaving of the invocations of one chain, every      *)
(* invocation works on the bundle of its own request and on its own model  *)
(* call: its bundle, the prompt sent, the string returned and the chunks   *)
(* consumed are those the request gives when it runs alone.                *)

C8_InvocationsIndependent ==
  \A i \in Invocations :
    LET own == CreatePrompt(request[i]).ret
    IN /\ HasKey(x[i], "prompt_dict") => x[i]["prompt_dict"] = own
       /\ HasKey(x[i], "prefix") => x[i]["prefix"] = own["prefix"]
       /\ calls[i] # <<>> => calls[i] = <<own["prompt"]>>
       /\ result[i].kind = "str" =>
            result[i].value = own["prefix"] \o x[i]["llm_output"].text
       /\ result[i].kind = "generator" =>
            /\ x[i]["llm_output"] = [kind |-> "stream", id |-> i]
            /\ IsPrefixOf(consumed[i], <<own["prefix"]>> \o src[i].chunks)
            /\ Len(consumed[i]) = (IF genpc[i] = 1 THEN 0 ELSE 1) + src[i].pos

C8_Witness ==
  \E i, j \in Invocations :
    /\ i # j
    /\ pc[i] = "returned" /\ pc[j] = "returned"
    /\ ChatHistory(i)[1].content # ChatHistory(j)[1].content
    /\ src[i].chunks # src[j].chunks
    /\ Len(consumed[i]) = 2 /\ src[i].state = "open"
    /\ Len(consumed[j]) = 2 /\ src[j].state = "ended"

\* What an invocation that has returned gave its caller.
C9_ModeOfReturn ==
  \A i \in Invocations :
    pc[i] = "returned" =>
      result[i].kind = (IF HasKey(chain.kwargs, "stream") /\ chain.kwargs["stream"]
                          THEN "generator" ELSE "str")

\* A step of an assembled chain.
C9_ChainIsFixed == chain.assembled => chain' = chain

(* C9.  The output mode is the stream flag given to create_chain, false    *)
(* when absent, and is fixed from then on: every invocation returns a      *)
(* string when it is false and a chunk sequence when it is true, whatever  *)
(* the request holds, a 'stream' key of its own included.                  *)

C9_ModeFixedAtAssembly == [] C9_ModeOfReturn /\ [][C9_ChainIsFixed]_vars

C9_Witness ==
  \E i \in Invocations :
    /\ ~HasKey(chain.kwargs, "stream")
    /\ HasKey(request[i], "stream") /\ request[i]["stream"]
    /\ pc[i] = "returned"
    /\ result[i].kind = "str"

(* C10.  For every valid history of N >= 1 turns the bundle's prompt, and  *)
(* the prompt sent to the model, is the templated history/query block,     *)
(* then the preamble, then the prefix; the preamble states N and lists the *)
(* N questions numbered 1..N in history order, and the prefix is the one   *)
(* later prepended to the output and restates question 1.                  *)

C10_PromptLayout ==
  \A i \in Invocations :
    (PromptStepDone(i) /\ Alternates(ChatHistory(i)) /\ ChatHistory(i) # <<>>) =>
      LET h == ChatHistory(i)
          block == build_prompt(CHIT_CHAT_SYSTEM_TEMPLATE, PairsOf(h), LitQueryInput)
          bundle == x[i]["prompt_dict"]
      IN /\ HasKey(x[i], "prompt_dict")
         /\ Len(frame[i].history) = Turns(h)
         /\ bundle["prefix"] = PrefixOfFirstQuestion(h)
         /\ bundle["prompt"] = block \o PreambleOf(h) \o bundle["prefix"]
         /\ calls[i] # <<>> => calls[i] = <<block \o PreambleOf(h) \o bundle["prefix"]>>

C10_Witness ==
  \E i \in Invocations :
    /\ pc[i] = "returned"
    /\ Len(ChatHistory(i)) = 4
    /\ ChatHistory(i)[1].content # ChatHistory(i)[3].content
    /\ calls[i] # <<>>

====
